---- MODULE Spec2Model ----
(***************************************************************************)
(* Model of NewsAnalyzer.fetch_article_content (src/news_analyzer.py) and  *)
(* of the strategy functions it calls.  One behaviour of the model is one  *)
(* call of fetch_article_content; pc is the position inside the call.      *)
(*                                                                         *)
(* A text is a sequence of lines; a line is [n |-> its length after        *)
(* strip(), up |-> the value of str.isupper() on it].  The length of a     *)
(* text is the sum of the line lengths plus one newline between lines.     *)
(* None and "" are both falsy in every test the code makes on              *)
(* article_content, so both are the empty text <<>>.                       *)
(* A url or link is a sequence of tokens; "a in b" is substring.           *)
(* An error message is the sequence of its words.                          *)
(* The title, url and content_length fields of the result records are      *)
(* carried along by the code and are left out.                             *)
(***************************************************************************)
EXTENDS Integers, Sequences, FiniteSets, TLC

\* ---------------------------------------------------------------- bounds
MaxLines == 3       \* lines per text handed in by the environment
MaxEntries == 1     \* entries per parsed feed
MaxDivs == 1        \* matching <div> elements on a page
MaxDivLines == 2    \* lines per <div> text

\* ------------------------------------------------------ program constants
NumSelectors == 27
NumRssPaths == 5
RssEntryCap == 10
SelectorMin == 150
ParagraphMin == 20
DivMin == 100
BodyMin == 80
AcceptMin == 80
FloorMin == 50
NewspaperMin == 50
FirstAcceptMin == 100
PartialLineMin == 10
PartialLineCap == 100
LineMin == 5
NavLineMin == 8
NavLineMax == 30
LineCap == 200

\* ------------------------------------------------------------------ texts
LineKinds ==
  { [n |-> 7, up |-> FALSE], [n |-> 25, up |-> TRUE], [n |-> 25, up |-> FALSE],
    [n |-> 48, up |-> FALSE], [n |-> 75, up |-> FALSE] }

TextsUpTo(k) == UNION { [1..j -> LineKinds] : j \in 0..k }

Texts == TextsUpTo(MaxLines)

RECURSIVE SumLens(_)
SumLens(t) == IF t = <<>> THEN 0 ELSE Head(t).n + SumLens(Tail(t))

\* len('\n'.join(lines))
TextLen(t) == IF t = <<>> THEN 0 ELSE SumLens(t) + Len(t) - 1

\* lines[:k]
Take(s, k) == SubSeq(s, 1, IF Len(s) < k THEN Len(s) ELSE k)

Range(s) == { s[i] : i \in DOMAIN s }

\* dict.get(key, default)
Get(r, key, default) == IF key \in DOMAIN r THEN r[key] ELSE default

\* ---------------------------------------------------------- urls and links
Url == << "https://site", "/a" >>

Links ==
  { <<>>, Url, Url \o << "?utm" >>, << "https://site" >>,
    << "https://site", "/b" >>, << "https://other", "/a" >> }

\* a in b, for strings
IsSubstring(a, b) ==
  \E i \in 0..(Len(b) - Len(a)) : SubSeq(b, i + 1, i + Len(a)) = a

\* ---------------------------------------------------------- error messages
ErrNpNotInstalled == << "newspaper3k", "not", "installed" >>
ErrNpFailed == << "newspaper3k", "failed", "to", "extract", "content" >>
ErrRssNotFound ==
  << "RSS", "feed", "not", "found", "or", "doesn't", "contain", "article" >>
Err401 ==
  << "401", "Forbidden", ":", "This", "website", "requires", "authentication",
     "or", "blocks", "automated", "access", "." >>
Err403 ==
  << "403", "Forbidden", ":", "Access", "denied", ".", "This", "website",
     "may", "block", "automated", "requests", "." >>
Err404 ==
  << "404", "Not", "Found", ":", "The", "article", "URL", "doesn't", "exist",
     "or", "has", "been", "removed", "." >>
ErrInsufficient ==
  << "Could", "not", "extract", "sufficient", "content", "from", "the",
     "article", "." >>
ErrTimeout == << "Request", "timed", "out", "." >>
ErrConnection == << "Connection", "error", "." >>
\* f"HTTP Error {e.response.status_code}: {str(e)}"
ErrHttp(code) ==
  << "HTTP", "Error", ToString(code), ":", ToString(code), "Error", "for",
     "url" >>
ErrOther == << "Error", "fetching", "article", ":" >>

Suggestion401 == "Options: 1) Use browser automation (Selenium/Playwright), 2) Try newspaper3k library, 3) Check RSS feed, 4) Copy article content manually."
Suggestion403 == "This site blocks automated access. Options: 1) Use browser automation (Selenium/Playwright), 2) Try newspaper3k library, 3) Check for RSS feed, 4) Copy article content manually."
SuggestionInsufficient == "Try copying the article content manually, use browser automation (Selenium/Playwright), or use a different news source."

\* ------------------------------------------------- fetch_with_newspaper3k
\* what article.download(); article.parse() does: raises, or yields a text
NpOutcomes ==
  { [raised |-> TRUE, text |-> <<>>] }
    \cup { [raised |-> FALSE, text |-> t] : t \in Texts }

NpAccepts(text) == text # <<>> /\ TextLen(text) > NewspaperMin

fetch_with_newspaper3k(available, o) ==
  IF ~available
    THEN [success |-> FALSE, error |-> ErrNpNotInstalled]
    ELSE IF ~o.raised /\ NpAccepts(o.text)
           THEN [success |-> TRUE, content |-> o.text, method |-> "newspaper3k"]
           ELSE [success |-> FALSE, error |-> ErrNpFailed]

\* ----------------------------------------------------------- try_rss_feed
RssSummaries ==
  { <<>>, << [n |-> 48, up |-> FALSE] >>, << [n |-> 75, up |-> FALSE] >>,
    << [n |-> 75, up |-> FALSE], [n |-> 48, up |-> FALSE] >> }

RssDescriptions == { <<>>, << [n |-> 75, up |-> FALSE] >> }

\* a missing link is entry.get('link', '') = ''
Entries == [link : Links, summary : RssSummaries, description : RssDescriptions]

\* what feedparser.parse(feed_url) does: raises, or yields a list of entries
FeedOutcomes ==
  { [raised |-> TRUE, entries |-> <<>>] }
    \cup { [raised |-> FALSE, entries |-> es] :
             es \in UNION { [1..j -> Entries] : j \in 0..MaxEntries } }

EntryMatches(url, entry) ==
  IsSubstring(url, entry.link) \/ IsSubstring(entry.link, url)

\* entry.get('summary', '') or entry.get('description', '')
EntryContent(entry) ==
  IF entry.summary # <<>> THEN entry.summary ELSE entry.description

RssSuccess(entry) ==
  [success |-> TRUE, content |-> EntryContent(entry), method |-> "rss_feed"]

RssFailure == [success |-> FALSE, error |-> ErrRssNotFound]

\* the body of "for path in rss_paths" for one path: the indices of the
\* matching entries among feed.entries[:10]; the first one is returned
MatchingEntries(url, feed) ==
  IF feed.raised
    THEN {}
    ELSE { i \in DOMAIN Take(feed.entries, RssEntryCap) :
             EntryMatches(url, feed.entries[i]) }

FirstOf(S) == CHOOSE i \in S : \A j \in S : i <= j

\* ------------------------------------------- extractor (direct HTTP) stages
\* soup.select_one(selector): no match, an exception, or an element's text
SelectorOutcomes ==
  { [kind |-> "none", text |-> <<>>], [kind |-> "raised", text |-> <<>>] }
    \cup { [kind |-> "match", text |-> t] : t \in Texts }

\* "if len(article_content) > 150: break"
SelectorAccepts(text) == TextLen(text) > SelectorMin

NeedsParagraphs(content) == content = <<>> \/ TextLen(content) < SelectorMin

\* one line per <p>: p.get_text(strip=True), kept when longer than 20
ParaTexts(paragraphs) == SelectSeq(paragraphs, LAMBDA p : p.n > ParagraphMin)

\* the div scan run under the selector threshold instead of its own
NeedsDivs_SelectorThreshold(content) ==
  content = <<>> \/ TextLen(content) < SelectorMin

\* "if not article_content or len(article_content) < 100"
NeedsDivs(content) == content = <<>> \/ TextLen(content) < DivMin

DivBlocks == TextsUpTo(MaxDivLines)

DivInputs == UNION { [1..j -> DivBlocks] : j \in 0..MaxDivs }

DivTexts(divs) == SelectSeq(divs, LAMBDA d : TextLen(d) > DivMin)

\* max(div_texts, key=len): the first of the longest
Longest(texts) ==
  texts[FirstOf({ i \in DOMAIN texts :
                    \A j \in DOMAIN texts : TextLen(texts[j]) <= TextLen(texts[i]) })]

NeedsBody(content) == content = <<>> \/ TextLen(content) < BodyMin

BodyOutcomes ==
  { [present |-> FALSE, text |-> <<>>] }
    \cup { [present |-> TRUE, text |-> t] : t \in Texts }

\* "if not article_content or len(article_content) < 80"
Insufficient(content) == content = <<>> \/ TextLen(content) < AcceptMin

\* lines 685-686
PartialCleanup(content) ==
  Take(SelectSeq(content, LAMBDA l : l.n > PartialLineMin), PartialLineCap)

NavigationLike(line) == line.up /\ line.n < NavLineMax

\* lines 706-714
CleanLines(content) ==
  Take(SelectSeq(SelectSeq(content, LAMBDA l : l.n > LineMin),
                 LAMBDA l : l.n > NavLineMin /\ ~NavigationLike(l)),
       LineCap)

\* ------------------------------------------------ fetch_article_content
Pending == [pending |-> TRUE]

\* the value of a call that falls off the end of the function
None == [none |-> TRUE]

Fail401 == [success |-> FALSE, error |-> Err401, suggestion |-> Suggestion401]
Fail403 == [success |-> FALSE, error |-> Err403, suggestion |-> Suggestion403]
Fail404 == [success |-> FALSE, error |-> Err404]
FailInsufficient ==
  [success |-> FALSE, error |-> ErrInsufficient,
   suggestion |-> SuggestionInsufficient]
FailTimeout == [success |-> FALSE, error |-> ErrTimeout]
FailConnection == [success |-> FALSE, error |-> ErrConnection]
FailHttp(code) ==
  [success |-> FALSE, error |-> ErrHttp(code), status_code |-> code]
FailOther == [success |-> FALSE, error |-> ErrOther]

StatusCodes == { 200, 401, 403, 404, 500 }

\* what session.get does: raises, or yields a response
GetOutcomes ==
  { [kind |-> k, status_code |-> 0] : k \in { "timeout", "conn_error", "other_exc" } }
    \cup { [kind |-> "response", status_code |-> c] : c \in StatusCodes }

\* "if use_fallbacks:" at line 481
NewspaperFirstEnabled(uf) == uf

\* mutant: the acceptance test written with the selector threshold
FirstAccepts_SelectorThreshold(r) ==
  Get(r, "success", FALSE) /\ TextLen(Get(r, "content", <<>>)) > SelectorMin

\* "newspaper_result.get('success') and len(newspaper_result.get('content', '')) > 100"
FirstAccepts(r) ==
  Get(r, "success", FALSE) /\ TextLen(Get(r, "content", <<>>)) > FirstAcceptMin

\* mutant: 404 handled by the 403 branch
StatusBranch_404Blocked(code) ==
  IF code = 401 THEN "401"
  ELSE IF code = 403 \/ code = 404 THEN "403"
  ELSE IF code >= 400 /\ code < 600 THEN "http_error"
  ELSE "ok"

\* the if/elif chain on response.status_code, then response.raise_for_status()
StatusBranch(code) ==
  IF code = 401 THEN "401"
  ELSE IF code = 403 THEN "403"
  ELSE IF code = 404 THEN "404"
  ELSE IF code >= 400 /\ code < 600 THEN "http_error"
  ELSE "ok"

\* mutant: the "if use_fallbacks:" guard is missing
FallbackMethods_Unguarded(uf) == << "newspaper3k", "rss_feed" >>

\* mutant: the two fallback methods are listed in the other order
FallbackMethods_RssFirst(uf) ==
  IF uf THEN << "rss_feed", "newspaper3k" >> ELSE <<>>

\* mutant: the RSS lookup is missing from the list
FallbackMethods_NewspaperOnly(uf) == IF uf THEN << "newspaper3k" >> ELSE <<>>

\* "if use_fallbacks: fallback_methods = [newspaper3k, RSS feed]"
FallbackMethods(uf) == IF uf THEN << "newspaper3k", "rss_feed" >> ELSE <<>>

\* the test a fallback's result must pass to be returned, per branch
FallbackAccepts(br, r) ==
  IF br \in { "401", "403" }
    THEN Get(r, "success", FALSE)
    ELSE /\ Get(r, "success", FALSE)
         /\ Get(r, "content", <<>>) # <<>>
         /\ TextLen(Get(r, "content", <<>>)) > FloorMin

\* mutant: the 401/403 branches surface the failure of the strategy tried last
FinalResult_LastTried(br, content) ==
  CASE br \in { "401", "403" } -> RssFailure
    [] br = "pre" ->
         IF content # <<>> /\ TextLen(content) >= FloorMin
           THEN [success |-> TRUE, content |-> PartialCleanup(content),
                 method |-> "requests (partial extraction)",
                 warning |-> "Content may be incomplete - consider manual paste for full article"]
           ELSE FailInsufficient
    [] br = "post" ->
         IF content # <<>> /\ TextLen(content) >= FloorMin
           THEN [success |-> TRUE, content |-> content,
                 method |-> "requests (partial)",
                 warning |-> "Content may be incomplete"]
           ELSE None

\* what the branch returns once its fallbacks are exhausted (or disabled)
FinalResult(br, content) ==
  CASE br = "401" -> Fail401
    [] br = "403" -> Fail403
    [] br = "pre" ->
         IF content # <<>> /\ TextLen(content) >= FloorMin
           THEN [success |-> TRUE, content |-> PartialCleanup(content),
                 method |-> "requests (partial extraction)",
                 warning |-> "Content may be incomplete - consider manual paste for full article"]
           ELSE FailInsufficient
    [] br = "post" ->
         IF content # <<>> /\ TextLen(content) >= FloorMin
           THEN [success |-> TRUE, content |-> content,
                 method |-> "requests (partial)",
                 warning |-> "Content may be incomplete"]
           ELSE None

\* the except clauses of lines 754-778
ExceptionResult(kind) ==
  CASE kind = "timeout" -> FailTimeout
    [] kind = "conn_error" -> FailConnection
    [] kind = "other_exc" -> FailOther

VARIABLES
  use_fallbacks,        \* the argument
  newspaper_available,  \* NEWSPAPER_AVAILABLE
  pc,                   \* position in fetch_article_content
  attempts,             \* the strategies invoked so far, in order
  last,                 \* the strategy invoked last and what it returned
  response,             \* what session.get gave
  article_content,      \* the local of that name
  sel_idx,              \* index into content_selectors
  branch,               \* which fallback loop is running: 401, 403, pre, post
  fb,                   \* the fallback methods still to try in that loop
  rss_i,                \* index into rss_paths inside try_rss_feed
  some_success,         \* history: a strategy called so far returned success=True
  sources,              \* history: the stages that set article_content, in order,
                        \* until the cleanup at line 705 rebuilds it
  result                \* the returned value, once pc = "done"

vars ==
  << use_fallbacks, newspaper_available, pc, attempts, last, response,
     article_content, sel_idx, branch, fb, rss_i, some_success, sources,
     result >>

\* no call of fetch_article_content is under way
FetchIdle ==
  /\ use_fallbacks = FALSE
  /\ newspaper_available = FALSE
  /\ pc = "idle"
  /\ attempts = <<>>
  /\ last = [strategy |-> "none", result |-> Pending]
  /\ response = [kind |-> "none", status_code |-> 0]
  /\ article_content = <<>>
  /\ sel_idx = 1
  /\ branch = "none"
  /\ fb = <<>>
  /\ rss_i = 1
  /\ some_success = FALSE
  /\ sources = <<>>
  /\ result = Pending

\* ---- state of a call of fetch_with_selenium or fetch_with_playwright
VARIABLES
  b_strategy,      \* which of the two functions is called
  b_available,     \* SELENIUM_AVAILABLE / PLAYWRIGHT_AVAILABLE
  b_pc,            \* position in the function
  driver,          \* the local driver (selenium) or browser (playwright) is set
  playwright_on,   \* inside "with sync_playwright() as p"
  browsers_open,   \* browser processes launched by the call and still running
  launched,        \* history: the call launched a browser
  b_raised,        \* an exception is propagating to the except clause
  b_clicks,        \* consent buttons clicked
  b_sel,           \* index into content_selectors
  b_content,       \* the local article_content
  b_result         \* the returned value, once b_pc = "done"

browserVars ==
  << b_strategy, b_available, b_pc, driver, playwright_on, browsers_open,
     launched, b_raised, b_clicks, b_sel, b_content, b_result >>

\* no call of a headless-browser strategy is under way
BrowserIdle ==
  /\ b_strategy = "none"
  /\ b_available = FALSE
  /\ b_pc = "idle"
  /\ driver = FALSE
  /\ playwright_on = FALSE
  /\ browsers_open = 0
  /\ launched = FALSE
  /\ b_raised = FALSE
  /\ b_clicks = 0
  /\ b_sel = 1
  /\ b_content = <<>>
  /\ b_result = Pending

\* ---- state of a call of find_related_articles
VARIABLES
  f_pc,              \* position in the function
  current_title,     \* the argument, as its words
  current_content,   \* the argument, as its words
  max_articles,      \* the argument
  keywords,          \* the local of that name
  f_path,            \* index into rss_paths
  f_response,        \* what requests.get gave
  f_selector,        \* index into related_selectors
  related_articles,  \* the local of that name
  self_skipped,      \* history: an entry or link that is the article itself was met
  passed_over,       \* history: highest relevance_score of a feed entry that was
                     \* scored and not appended (0 when there is none)
  f_result           \* the returned list, once f_pc = "done"

finderVars ==
  << f_pc, current_title, current_content, max_articles, keywords, f_path,
     f_response, f_selector, related_articles, self_skipped, passed_over,
     f_result >>

\* no call of find_related_articles is under way
FinderIdle ==
  /\ f_pc = "idle"
  /\ current_title = <<>>
  /\ current_content = <<>>
  /\ max_articles = 0
  /\ keywords = {}
  /\ f_path = 1
  /\ f_response = "none"
  /\ f_selector = 1
  /\ related_articles = <<>>
  /\ self_skipped = FALSE
  /\ passed_over = 0
  /\ f_result = <<>>

\* ---- state of a call of analyze_related_articles
VARIABLES
  c_pc,              \* position in the function
  current_article,   \* the argument
  candidates,        \* the argument related_articles
  c_i,               \* index of the candidate the loop is at
  analysis,          \* the local of that name
  c_log,             \* history: per candidate, what its fetch did
  c_result           \* the returned record, once c_pc = "done"

compareVars ==
  << c_pc, current_article, candidates, c_i, analysis, c_log, c_result >>

\* no call of analyze_related_articles is under way
CompareIdle ==
  /\ c_pc = "idle"
  /\ current_article = None
  /\ candidates = <<>>
  /\ c_i = 1
  /\ analysis = None
  /\ c_log = <<>>
  /\ c_result = Pending

\* ---- state of a call of analyze_news
VARIABLES
  n_pc,              \* position in the function
  find_related,      \* the argument
  article_data,      \* the local of that name
  alarm,             \* the SIGALRM timer: "unset", "armed", "fired", "cancelled"
  timed_out,         \* history: where find_related_articles was when the alarm fired
  related_articles_analysis,  \* the local of that name
  n_result           \* the returned record, once n_pc = "done"

newsVars ==
  << n_pc, find_related, article_data, alarm, timed_out,
     related_articles_analysis, n_result >>

\* no call of analyze_news is under way
NewsIdle ==
  /\ n_pc = "idle"
  /\ find_related = FALSE
  /\ article_data = None
  /\ alarm = "unset"
  /\ timed_out = "no"
  /\ related_articles_analysis = None
  /\ n_result = Pending

\* the variables fetch_article_content does not touch
nonFetchVars == << browserVars, finderVars, compareVars, newsVars >>

NonFetchIdle == BrowserIdle /\ FinderIdle /\ CompareIdle /\ NewsIdle

\* the variables the headless-browser strategies do not touch
nonBrowserVars == << vars, finderVars, compareVars, newsVars >>

NonBrowserIdle == FetchIdle /\ FinderIdle /\ CompareIdle /\ NewsIdle

\* the variables find_related_articles does not touch
nonFinderVars == << vars, browserVars, compareVars, newsVars >>

NonFinderIdle == FetchIdle /\ BrowserIdle /\ CompareIdle /\ NewsIdle

\* the variables analyze_related_articles does not touch
nonCompareVars == << vars, browserVars, finderVars, newsVars >>

NonCompareIdle == FetchIdle /\ BrowserIdle /\ FinderIdle /\ NewsIdle

Init ==
  /\ NonFetchIdle
  /\ use_fallbacks \in BOOLEAN
  /\ newspaper_available \in BOOLEAN
  /\ pc = "start"
  /\ attempts = <<>>
  /\ last = [strategy |-> "none", result |-> Pending]
  /\ response = [kind |-> "none", status_code |-> 0]
  /\ article_content = <<>>
  /\ sel_idx = 1
  /\ branch = "none"
  /\ fb = <<>>
  /\ rss_i = 1
  /\ some_success = FALSE
  /\ sources = <<>>
  /\ result = Pending

Return(r) == pc' = "done" /\ result' = r

\* lines 480-485
NewspaperFirst ==
  /\ pc = "start"
  /\ IF NewspaperFirstEnabled(use_fallbacks)
       THEN \E o \in NpOutcomes :
              LET r == fetch_with_newspaper3k(newspaper_available, o) IN
                /\ attempts' = Append(attempts, "newspaper3k")
                /\ last' = [strategy |-> "newspaper3k", result |-> r]
                /\ some_success' = r.success
                /\ IF FirstAccepts(r)
                     THEN Return(r)
                     ELSE pc' = "http" /\ UNCHANGED result
       ELSE /\ pc' = "http"
            /\ UNCHANGED << attempts, last, some_success, result >>
  /\ UNCHANGED sources
  /\ UNCHANGED nonFetchVars
  /\ UNCHANGED << use_fallbacks, newspaper_available, response,
                  article_content, sel_idx, branch, fb, rss_i >>

\* lines 506-561: session.get, the status checks and raise_for_status
HttpGet ==
  /\ pc = "http"
  /\ \E o \in GetOutcomes :
       /\ response' = o
       /\ attempts' = Append(attempts, "direct_http")
       /\ last' = [strategy |-> "direct_http", result |-> Pending]
       /\ IF o.kind # "response"
            THEN Return(ExceptionResult(o.kind)) /\ UNCHANGED << branch, fb >>
            ELSE LET br == StatusBranch(o.status_code) IN
                   CASE br \in { "401", "403" } ->
                          /\ branch' = br
                          /\ fb' = FallbackMethods(use_fallbacks)
                          /\ pc' = "fallback"
                          /\ UNCHANGED result
                     [] br = "404" ->
                          Return(Fail404) /\ UNCHANGED << branch, fb >>
                     [] br = "http_error" ->
                          Return(FailHttp(o.status_code)) /\ UNCHANGED << branch, fb >>
                     [] br = "ok" ->
                          pc' = "selectors" /\ UNCHANGED << branch, fb, result >>
  /\ UNCHANGED sources
  /\ UNCHANGED nonFetchVars
  /\ UNCHANGED << use_fallbacks, newspaper_available, article_content, sel_idx,
                  rss_i, some_success >>

\* the history of article_content after a selector matched: the selector loop
\* is one stage, however many selectors matched
Traced(srcs, tag) ==
  IF srcs # <<>> /\ srcs[Len(srcs)] = tag THEN srcs ELSE Append(srcs, tag)

\* lines 622-632: one iteration of "for selector in content_selectors"
SelectorStep ==
  /\ pc = "selectors"
  /\ \E o \in SelectorOutcomes :
       /\ article_content' = IF o.kind = "match" THEN o.text ELSE article_content
       /\ sources' = IF o.kind = "match"
                       THEN Traced(sources, "selector") ELSE sources
       /\ IF (o.kind = "match" /\ SelectorAccepts(o.text)) \/ sel_idx = NumSelectors
            THEN pc' = "paragraphs" /\ UNCHANGED sel_idx
            ELSE pc' = "selectors" /\ sel_idx' = sel_idx + 1
  /\ UNCHANGED nonFetchVars
  /\ UNCHANGED << use_fallbacks, newspaper_available, attempts, last, response,
                  branch, fb, rss_i, some_success, result >>

\* lines 634-640
ParagraphStage ==
  /\ pc = "paragraphs"
  /\ IF NeedsParagraphs(article_content)
       THEN \E paragraphs \in Texts :
              IF ParaTexts(paragraphs) # <<>>
                THEN /\ article_content' = ParaTexts(paragraphs)
                     /\ sources' = Append(sources, "paragraphs")
                ELSE UNCHANGED << article_content, sources >>
       ELSE UNCHANGED << article_content, sources >>
  /\ pc' = "divs"
  /\ UNCHANGED nonFetchVars
  /\ UNCHANGED << use_fallbacks, newspaper_available, attempts, last, response,
                  sel_idx, branch, fb, rss_i, some_success, result >>

\* lines 642-653
DivStage ==
  /\ pc = "divs"
  /\ IF NeedsDivs(article_content)
       THEN \E divs \in DivInputs :
              IF DivTexts(divs) # <<>>
                THEN /\ article_content' = Longest(DivTexts(divs))
                     /\ sources' = Append(sources, "divs")
                ELSE UNCHANGED << article_content, sources >>
       ELSE UNCHANGED << article_content, sources >>
  /\ pc' = "body"
  /\ UNCHANGED nonFetchVars
  /\ UNCHANGED << use_fallbacks, newspaper_available, attempts, last, response,
                  sel_idx, branch, fb, rss_i, some_success, result >>

\* lines 655-662
BodyStage ==
  /\ pc = "body"
  /\ IF NeedsBody(article_content)
       THEN \E o \in BodyOutcomes :
              IF o.present
                THEN /\ article_content' = o.text
                     /\ sources' = Append(sources, "body")
                ELSE UNCHANGED << article_content, sources >>
       ELSE UNCHANGED << article_content, sources >>
  /\ pc' = "check"
  /\ UNCHANGED nonFetchVars
  /\ UNCHANGED << use_fallbacks, newspaper_available, attempts, last, response,
                  sel_idx, branch, fb, rss_i, some_success, result >>

\* lines 664-667 and 705-728: the two length tests around the line cleanup
CheckContent ==
  /\ pc = "check"
  /\ IF Insufficient(article_content)
       THEN /\ branch' = "pre"
            /\ fb' = FallbackMethods(use_fallbacks)
            /\ pc' = "fallback"
            /\ UNCHANGED << article_content, result >>
       ELSE LET cleaned == CleanLines(article_content) IN
              /\ article_content' = cleaned
              /\ IF TextLen(cleaned) >= AcceptMin
                   THEN /\ Return([success |-> TRUE, content |-> cleaned,
                                   method |-> "requests"])
                        /\ UNCHANGED << branch, fb >>
                   ELSE /\ branch' = "post"
                        /\ fb' = FallbackMethods(use_fallbacks)
                        /\ pc' = "fallback"
                        /\ UNCHANGED result
  /\ sources' = <<>>
  /\ UNCHANGED nonFetchVars
  /\ UNCHANGED << use_fallbacks, newspaper_available, attempts, last, response,
                  sel_idx, rss_i, some_success >>

\* "result = method_func(url)" has returned r inside a fallback loop
AfterFallback(r) ==
  /\ last' = [strategy |-> Head(fb), result |-> r]
  /\ rss_i' = 1
  /\ some_success' = (some_success \/ r.success)
  /\ IF FallbackAccepts(branch, r)
       THEN Return(r) /\ UNCHANGED fb
       ELSE fb' = Tail(fb) /\ UNCHANGED << pc, result >>

\* an iteration of a fallback loop that calls fetch_with_newspaper3k
FallbackNewspaper ==
  /\ pc = "fallback"
  /\ fb # <<>>
  /\ Head(fb) = "newspaper3k"
  /\ \E o \in NpOutcomes :
       AfterFallback(fetch_with_newspaper3k(newspaper_available, o))
  /\ attempts' = Append(attempts, "newspaper3k")
  /\ UNCHANGED sources
  /\ UNCHANGED nonFetchVars
  /\ UNCHANGED << use_fallbacks, newspaper_available, response,
                  article_content, sel_idx, branch >>

\* an iteration of a fallback loop that calls try_rss_feed; one step is one
\* iteration of "for path in rss_paths" (lines 255-272)
FallbackRss ==
  /\ pc = "fallback"
  /\ fb # <<>>
  /\ Head(fb) = "rss_feed"
  /\ attempts' = IF rss_i = 1 THEN Append(attempts, "rss_feed") ELSE attempts
  /\ \E feed \in FeedOutcomes :
       LET m == MatchingEntries(Url, feed) IN
         IF m # {}
           THEN AfterFallback(RssSuccess(feed.entries[FirstOf(m)]))
           ELSE IF rss_i < NumRssPaths
                  THEN /\ rss_i' = rss_i + 1
                       /\ UNCHANGED << pc, last, fb, some_success, result >>
                  ELSE AfterFallback(RssFailure)
  /\ UNCHANGED sources
  /\ UNCHANGED nonFetchVars
  /\ UNCHANGED << use_fallbacks, newspaper_available, response,
                  article_content, sel_idx, branch >>

\* the code after a fallback loop (or after a skipped "if use_fallbacks:")
FinishChain ==
  /\ pc = "fallback"
  /\ fb = <<>>
  /\ Return(FinalResult(branch, article_content))
  /\ UNCHANGED sources
  /\ UNCHANGED nonFetchVars
  /\ UNCHANGED << use_fallbacks, newspaper_available, attempts, last, response,
                  article_content, sel_idx, branch, fb, rss_i, some_success >>

Next ==
  \/ NewspaperFirst
  \/ HttpGet
  \/ SelectorStep
  \/ ParagraphStage
  \/ DivStage
  \/ BodyStage
  \/ CheckContent
  \/ FallbackNewspaper
  \/ FallbackRss
  \/ FinishChain

Spec == Init /\ [][Next]_vars

\* ================================================================ claims
Done == pc = "done"

Succeeded == Done /\ Get(result, "success", FALSE) = TRUE

\* a returned record with success = False
Failed == Done /\ "success" \in DOMAIN result /\ result.success = FALSE

IsPrefix(s, t) == Len(s) <= Len(t) /\ SubSeq(t, 1, Len(s)) = s

ResponseStatus(code) == response.kind = "response" /\ response.status_code = code

\* the direct HTTP request is made at most once; its place in attempts, or 0
DirectAt ==
  IF \E i \in DOMAIN attempts : attempts[i] = "direct_http"
    THEN CHOOSE i \in DOMAIN attempts : attempts[i] = "direct_http"
    ELSE 0

\* the strategies invoked after the direct HTTP request
AfterDirect == { attempts[i] : i \in { j \in DOMAIN attempts : j > DirectAt } }

\* C1: every result returned with success=true has non-empty content of at
\* least 50 characters.
C1_SuccessHasContent ==
  Succeeded =>
    /\ Get(result, "content", <<>>) # <<>>
    /\ TextLen(Get(result, "content", <<>>)) >= FloorMin

\* C2: on every execution path fetch_article_content returns a record that
\* carries a boolean success field (never no value).
C2_AlwaysReturnsRecord ==
  Done => "success" \in DOMAIN result /\ result.success \in BOOLEAN

\* C3: with use_fallbacks=false only the direct HTTP strategy is ever
\* invoked: neither newspaper3k, nor the RSS lookup, nor a headless browser.
C3_NoFallbacksOnlyDirect ==
  ~use_fallbacks => \A i \in DOMAIN attempts : attempts[i] = "direct_http"

\* a call without fallbacks returned from a branch that has a fallback loop
C3_Witness ==
  /\ Done
  /\ ~use_fallbacks
  /\ branch \in { "403", "post" }
  /\ attempts = << "direct_http" >>

\* the one order in which strategies are attempted
ChainOrder(uf) ==
  IF uf THEN << "newspaper3k", "direct_http", "newspaper3k", "rss_feed" >>
        ELSE << "direct_http" >>

\* C4: the strategies attempted are always an initial part of one fixed
\* order that depends only on use_fallbacks; with fallbacks enabled that
\* order starts with newspaper3k, before the direct HTTP request.
C4_FixedOrder ==
  /\ IsPrefix(attempts, ChainOrder(use_fallbacks))
  /\ (use_fallbacks /\ DirectAt # 0 => attempts[1] = "newspaper3k" /\ DirectAt = 2)

\* a call that went through the whole chain
C4_Witness ==
  /\ Done
  /\ use_fallbacks
  /\ attempts = << "newspaper3k", "direct_http", "newspaper3k", "rss_feed" >>

\* C5: once a strategy has reported success=true with more than 100
\* characters of content, the call has returned, with that very result.
C5_ShortCircuit ==
  /\ Get(last.result, "success", FALSE) = TRUE
  /\ TextLen(Get(last.result, "content", <<>>)) > 100
  => Done /\ result = last.result

\* newspaper3k, tried first, reported more than 100 characters and nothing
\* else was tried
C5_Witness ==
  /\ Done
  /\ attempts = << "newspaper3k" >>
  /\ Get(result, "method", "") = "newspaper3k"
  /\ TextLen(result.content) > FirstAcceptMin

\* C6: when the direct HTTP request times out or fails to connect and
\* use_fallbacks=true, another strategy has been tried after it by the time
\* fetch returns.
C6_TransientTriesNext ==
  Done /\ use_fallbacks /\ response.kind \in { "timeout", "conn_error" }
    => AfterDirect # {}

C8_404Terminal ==
  ResponseStatus(404) =>
    /\ Failed
    /\ "404" \in Range(result.error)
    /\ attempts[Len(attempts)] = "direct_http"

\* a 404 met with fallbacks enabled
C8_Witness == Failed /\ use_fallbacks /\ ResponseStatus(404)

\* C9 as claimed: when every strategy attempted failed, the returned error
\* is the error of the strategy tried last.
C9_LastTriedError ==
  Failed /\ ~some_success /\ last.strategy # "direct_http" =>
    result.error = Get(last.result, "error", <<>>)

\* the diagnostic of the direct HTTP strategy for what it met
DirectDiagnostic ==
  CASE response.kind = "timeout" -> ErrTimeout
    [] response.kind = "conn_error" -> ErrConnection
    [] response.kind = "other_exc" -> ErrOther
    [] ResponseStatus(401) -> Err401
    [] ResponseStatus(403) -> Err403
    [] ResponseStatus(404) -> Err404
    [] ResponseStatus(500) -> ErrHttp(500)
    [] OTHER -> ErrInsufficient

\* C9 (amended): the error of every returned failure record is the
\* diagnostic of the direct HTTP strategy; the errors of newspaper3k and of
\* the RSS lookup are absorbed, also when they were tried after it.
C9_DirectError ==
  Failed =>
    /\ result.error = DirectDiagnostic
    /\ result.error \notin { ErrNpNotInstalled, ErrNpFailed, ErrRssNotFound }

\* every strategy failed and the RSS lookup was the one tried last
C9_Witness ==
  /\ Failed
  /\ ~some_success
  /\ last.strategy = "rss_feed"
  /\ last.result = RssFailure

\* C10: every returned failure record carries a suggestion string.
C10_FailureHasSuggestion ==
  Failed => "suggestion" \in DOMAIN result /\ result.suggestion # ""


\* ================================== fetch_with_selenium, fetch_with_playwright
MaxButtons == 4     \* consent buttons found on a page

BrowserNumSelectors == 5
BrowserSelectorMin == 200
BrowserAcceptMin == 100
BrowserContentCap == 5000
ConsentCap == 3

ErrSeleniumNotInstalled == << "selenium", "not", "installed" >>
ErrSelenium == << "selenium", "error", ":" >>
ErrSeleniumFailed == << "selenium", "failed", "to", "extract", "content" >>
ErrPlaywrightNotInstalled == << "playwright", "not", "installed" >>
ErrPlaywright == << "playwright", "error", ":" >>
ErrPlaywrightFailed == << "playwright", "failed", "to", "extract", "content" >>

BrowserNotInstalled(strategy) ==
  [success |-> FALSE,
   error |-> IF strategy = "selenium" THEN ErrSeleniumNotInstalled
                                      ELSE ErrPlaywrightNotInstalled]

\* the except clause: f"selenium error: {str(e)}"
BrowserError(strategy) ==
  [success |-> FALSE,
   error |-> IF strategy = "selenium" THEN ErrSelenium ELSE ErrPlaywright]

\* the return after the try statement
BrowserFailed(strategy) ==
  [success |-> FALSE,
   error |-> IF strategy = "selenium" THEN ErrSeleniumFailed
                                      ELSE ErrPlaywrightFailed]

\* article_content[:5000]
RECURSIVE TruncChars(_, _)
TruncChars(t, k) ==
  IF t = <<>> \/ k <= 0 THEN <<>>
  ELSE IF Head(t).n >= k THEN << [n |-> k, up |-> Head(t).up] >>
  ELSE << Head(t) >> \o TruncChars(Tail(t), k - Head(t).n - 1)

BrowserSuccess(strategy, content) ==
  [success |-> TRUE, content |-> TruncChars(content, BrowserContentCap),
   method |-> strategy]

\* "if article_content and len(article_content) > 100"
BrowserAccepts(content) ==
  content # <<>> /\ TextLen(content) > BrowserAcceptMin

\* where control goes when the try block is left: the finally clause of
\* fetch_with_selenium, the exit of the with statement of fetch_with_playwright
ExitPc(strategy) == IF strategy = "selenium" THEN "finally" ELSE "exit_with"

\* mutant: driver.quit() is not reached when an exception was raised
FinallyQuits_NotAfterException(drv, raised) == drv /\ ~raised

\* "finally: if driver: driver.quit()"
FinallyQuits(drv, raised) == drv

\* mutant: leaving the with statement by an exception leaves the browser
PlaywrightExitCloses_NotAfterException(raised) == ~raised

\* leaving "with sync_playwright() as p" stops the Playwright driver, and
\* with it every browser it launched, however the block is left
PlaywrightExitCloses(raised) == TRUE

BrowserInit ==
  /\ NonBrowserIdle
  /\ b_strategy \in { "selenium", "playwright" }
  /\ b_available \in BOOLEAN
  /\ b_pc = "start"
  /\ driver = FALSE
  /\ playwright_on = FALSE
  /\ browsers_open = 0
  /\ launched = FALSE
  /\ b_raised = FALSE
  /\ b_clicks = 0
  /\ b_sel = 1
  /\ b_content = <<>>
  /\ b_result = Pending

\* an exception is raised inside the try block
BrowserRaise ==
  /\ b_raised' = TRUE
  /\ b_pc' = ExitPc(b_strategy)

\* lines 117-118, 192-193
BrowserStart ==
  /\ b_pc = "start"
  /\ IF ~b_available
       THEN b_pc' = "done" /\ b_result' = BrowserNotInstalled(b_strategy)
       ELSE /\ b_pc' = IF b_strategy = "selenium" THEN "launch" ELSE "enter"
            /\ UNCHANGED b_result
  /\ UNCHANGED << b_strategy, b_available, driver, playwright_on,
                  browsers_open, launched, b_raised, b_clicks, b_sel,
                  b_content >>
  /\ UNCHANGED nonBrowserVars

\* line 196: entering "with sync_playwright() as p"
PlaywrightEnter ==
  /\ b_pc = "enter"
  /\ \E ok \in BOOLEAN :
       IF ok
         THEN playwright_on' = TRUE /\ b_pc' = "launch"
                /\ UNCHANGED << b_raised, b_result >>
         ELSE /\ b_raised' = TRUE
              /\ b_pc' = "done"
              /\ b_result' = BrowserError(b_strategy)
              /\ UNCHANGED playwright_on
  /\ UNCHANGED << b_strategy, b_available, driver, browsers_open, launched,
                  b_clicks, b_sel, b_content >>
  /\ UNCHANGED nonBrowserVars

\* line 131: webdriver.Chrome(...); line 197: p.chromium.launch(...)
BrowserLaunch ==
  /\ b_pc = "launch"
  /\ \E ok \in BOOLEAN :
       IF ok
         THEN /\ driver' = TRUE
              /\ browsers_open' = browsers_open + 1
              /\ launched' = TRUE
              /\ b_pc' = "goto"
              /\ UNCHANGED b_raised
         ELSE BrowserRaise /\ UNCHANGED << driver, browsers_open, launched >>
  /\ UNCHANGED << b_strategy, b_available, playwright_on, b_clicks, b_sel,
                  b_content, b_result >>
  /\ UNCHANGED nonBrowserVars

\* lines 132-135: driver.get(url); lines 198-205: new_context, new_page, goto
BrowserGoto ==
  /\ b_pc = "goto"
  /\ \E ok \in BOOLEAN :
       IF ok
         THEN /\ b_pc' = IF b_strategy = "selenium" THEN "overlays" ELSE "read"
              /\ UNCHANGED b_raised
         ELSE BrowserRaise
  /\ UNCHANGED << b_strategy, b_available, driver, playwright_on,
                  browsers_open, launched, b_clicks, b_sel, b_content,
                  b_result >>
  /\ UNCHANGED nonBrowserVars

\* lines 138-147: up to three consent buttons are clicked; every exception
\* of find_elements (found < 0) or of a click is swallowed
SeleniumOverlays ==
  /\ b_pc = "overlays"
  /\ \E found \in -1..MaxButtons :
       b_clicks' = IF found < 0 THEN 0
                   ELSE IF found > ConsentCap THEN ConsentCap ELSE found
  /\ b_pc' = "read"
  /\ UNCHANGED << b_strategy, b_available, driver, playwright_on,
                  browsers_open, launched, b_raised, b_sel, b_content,
                  b_result >>
  /\ UNCHANGED nonBrowserVars

\* lines 150-159: page_source and parsing; lines 208-209: title and content
BrowserRead ==
  /\ b_pc = "read"
  /\ \E ok \in BOOLEAN :
       IF ok
         THEN /\ b_pc' = IF b_strategy = "selenium" THEN "selectors" ELSE "close"
              /\ UNCHANGED b_raised
         ELSE BrowserRaise
  /\ UNCHANGED << b_strategy, b_available, driver, playwright_on,
                  browsers_open, launched, b_clicks, b_sel, b_content,
                  b_result >>
  /\ UNCHANGED nonBrowserVars

\* line 211: browser.close()
PlaywrightClose ==
  /\ b_pc = "close"
  /\ \E ok \in BOOLEAN :
       IF ok
         THEN /\ browsers_open' = 0
              /\ b_pc' = "selectors"
              /\ UNCHANGED b_raised
         ELSE BrowserRaise /\ UNCHANGED browsers_open
  /\ UNCHANGED << b_strategy, b_available, driver, playwright_on, launched,
                  b_clicks, b_sel, b_content, b_result >>
  /\ UNCHANGED nonBrowserVars

\* lines 163-168, 220-225: one iteration of "for selector in content_selectors"
BrowserSelectorStep ==
  /\ b_pc = "selectors"
  /\ \E o \in SelectorOutcomes :
       IF o.kind = "raised"
         THEN BrowserRaise /\ UNCHANGED << b_content, b_sel >>
         ELSE /\ b_content' = IF o.kind = "match" THEN o.text ELSE b_content
              /\ IF (o.kind = "match" /\ TextLen(o.text) > BrowserSelectorMin)
                      \/ b_sel = BrowserNumSelectors
                   THEN b_pc' = "paragraphs" /\ UNCHANGED b_sel
                   ELSE b_pc' = "selectors" /\ b_sel' = b_sel + 1
              /\ UNCHANGED b_raised
  /\ UNCHANGED << b_strategy, b_available, driver, playwright_on,
                  browsers_open, launched, b_clicks, b_result >>
  /\ UNCHANGED nonBrowserVars

\* lines 170-182, 227-239: the paragraphs when no selector gave text, then
\* the length test
BrowserDecide ==
  /\ b_pc = "paragraphs"
  /\ \E paragraphs \in Texts :
       LET content == IF b_content = <<>> THEN paragraphs ELSE b_content IN
         /\ b_content' = content
         /\ b_result' = IF BrowserAccepts(content)
                          THEN BrowserSuccess(b_strategy, content)
                          ELSE b_result
  /\ b_pc' = ExitPc(b_strategy)
  /\ UNCHANGED << b_strategy, b_available, driver, playwright_on,
                  browsers_open, launched, b_raised, b_clicks, b_sel >>
  /\ UNCHANGED nonBrowserVars

\* what the call returns once the try statement is left
BrowserReturn ==
  IF b_raised THEN BrowserError(b_strategy)
  ELSE IF b_result = Pending THEN BrowserFailed(b_strategy)
  ELSE b_result

\* line 187: driver.quit() ends the browser, or raises; its exception is
\* raised in the finally clause, past the except clause of line 183
QuitOutcomes == { "quit", "raised" }

\* lines 183-188: the except and finally clauses, then the return. When
\* driver.quit() raises, the exception leaves the function in place of the
\* pending return, and the browser may or may not have been ended.
SeleniumFinally ==
  /\ b_pc = "finally"
  /\ IF FinallyQuits(driver, b_raised)
       THEN \E o \in QuitOutcomes :
              IF o = "quit"
                THEN /\ browsers_open' = 0
                     /\ b_result' = BrowserReturn
                     /\ b_pc' = "done"
                ELSE /\ browsers_open' \in { 0, browsers_open }
                     /\ b_pc' = "raised"
                     /\ UNCHANGED b_result
       ELSE /\ b_result' = BrowserReturn
            /\ b_pc' = "done"
            /\ UNCHANGED browsers_open
  /\ UNCHANGED << b_strategy, b_available, driver, playwright_on, launched,
                  b_raised, b_clicks, b_sel, b_content >>
  /\ UNCHANGED nonBrowserVars

\* lines 196, 240-242: the with statement is left, then the except clause
\* or the return
PlaywrightExit ==
  /\ b_pc = "exit_with"
  /\ playwright_on' = FALSE
  /\ browsers_open' = IF PlaywrightExitCloses(b_raised) THEN 0 ELSE browsers_open
  /\ b_result' = BrowserReturn
  /\ b_pc' = "done"
  /\ UNCHANGED << b_strategy, b_available, driver, launched, b_raised,
                  b_clicks, b_sel, b_content >>
  /\ UNCHANGED nonBrowserVars

BrowserNext ==
  \/ BrowserStart
  \/ PlaywrightEnter
  \/ BrowserLaunch
  \/ BrowserGoto
  \/ SeleniumOverlays
  \/ BrowserRead
  \/ PlaywrightClose
  \/ BrowserSelectorStep
  \/ BrowserDecide
  \/ SeleniumFinally
  \/ PlaywrightExit

allVars == << vars, nonFetchVars >>

BrowserSpec == BrowserInit /\ [][BrowserNext]_allVars

\* ====================================================== find_related_articles
MaxArticles == 2      \* largest max_articles argument
MaxFeedEntries == 2   \* entries per parsed feed
MaxAnchors == 1       \* anchors matched by one related-links selector

TitleWordMin == 4
ContentWordMin == 5
ContentPrefix == 500
KeywordCap == 10
FeedEntryCap == 20
RelevanceMin == 2
NumRelatedSelectors == 6
AnchorCap == 10
AnchorTitleMin == 10
AnchorRelevanceMin == 1
TopicBonus == 2

\* a prose text is the sequence of its (lower-cased) words
Vocabulary ==
  { "the", "modi", "india", "indian", "trade", "visit", "policy", "talks" }

\* len(word)
WordLen(w) ==
  CASE w = "the" -> 3
    [] w = "modi" -> 4
    [] w \in { "india", "trade", "visit", "talks" } -> 5
    [] w \in { "indian", "policy" } -> 6
    [] OTHER -> 5

\* a in b for two words: the only word of the vocabulary that lies inside
\* another one is "india", inside "indian"
WordIn(a, b) == a = b \/ (a = "india" /\ b = "indian")

\* keyword in text: a keyword has no blank, so it lies inside one word
InText(w, text) == \E i \in DOMAIN text : WordIn(w, text[i])

RECURSIVE ProseLen(_)
\* len(text), one blank between words
ProseLen(text) ==
  IF text = <<>> THEN 0
  ELSE WordLen(Head(text)) + (IF Len(text) > 1 THEN 1 ELSE 0) + ProseLen(Tail(text))

RECURSIVE ProsePrefix(_, _)
\* the words of text[:k] (a word cut by the slice is left out)
ProsePrefix(text, k) ==
  IF text = <<>> \/ WordLen(Head(text)) > k THEN <<>>
  ELSE << Head(text) >> \o ProsePrefix(Tail(text), k - WordLen(Head(text)) - 1)

\* set(re.findall(r'\b\w{k,}\b', text))
WordsOfLen(text, k) == { text[i] : i \in { j \in DOMAIN text : WordLen(text[j]) >= k } }

\* lines 286-287
KeywordPool(title, content) ==
  WordsOfLen(title, TitleWordMin)
    \cup WordsOfLen(ProsePrefix(content, ContentPrefix), ContentWordMin)

\* list(...)[:10]: the order of a set is not fixed, any ten may be kept
KeywordChoices(title, content) ==
  LET pool == KeywordPool(title, content) IN
    IF Cardinality(pool) <= KeywordCap THEN { pool }
    ELSE { k \in SUBSET pool : Cardinality(k) = KeywordCap }

CommonTopics ==
  { "india", "modi", "putin", "russia", "diplomatic", "visit", "policy" }

\* a topic term shared with the content counted like a keyword
RssRelevance_SingleBonus(kws, entry_text, content) ==
  Cardinality({ k \in kws : InText(k, entry_text) })
    + Cardinality({ t \in CommonTopics :
                      InText(t, entry_text) /\ InText(t, content) })

\* lines 309-320
RssRelevance(kws, entry_text, content) ==
  Cardinality({ k \in kws : InText(k, entry_text) })
    + TopicBonus * Cardinality({ t \in CommonTopics :
                                   InText(t, entry_text) /\ InText(t, content) })

\* line 374
AnchorRelevance(kws, title) == Cardinality({ k \in kws : InText(k, title) })

\* "if entry_url == url or url in entry_url: continue"
RssSkips(url, entry_url) == entry_url = url \/ IsSubstring(url, entry_url)

\* mutant: one keyword is enough for an RSS entry
RssAccepts_One(score) == score >= 1

\* "if relevance_score >= 2"
RssAccepts(score) == score >= RelevanceMin

Origins == { "https://site", "https://other" }

\* f"{parsed.scheme}://{parsed.netloc}"
BaseUrl(url) == << Head(url) >>

\* href.startswith('http')
IsAbsolute(href) == href # <<>> /\ Head(href) \in Origins

\* lines 366-367
Resolve(url, href) == IF IsAbsolute(href) THEN href ELSE BaseUrl(url) \o href

\* mutant: the test against the article's own url is missing
PageKeeps_OriginOnly(url, href) == IsSubstring(BaseUrl(url), href)

\* "if href != url and base_url in href"
PageKeeps(url, href) == href # url /\ IsSubstring(BaseUrl(url), href)

\* "if title and len(title) > 10", then "if relevance >= 1"
AnchorAccepts(kws, title) ==
  /\ title # <<>>
  /\ ProseLen(title) > AnchorTitleMin
  /\ AnchorRelevance(kws, title) >= AnchorRelevanceMin

\* ------------------------------------------------------------ the inputs
Titles == { << "modi", "visit" >> }

Contents == { << "india", "trade", "policy" >>, << "the" >> }

EntryLinks ==
  { Url, Url \o << "?utm" >>, << "https://site", "/b" >> }

EntryTexts ==
  { [title |-> << "indian", "trade" >>, summary |-> <<>>],
    [title |-> << "modi" >>, summary |-> << "trade", "visit" >>],
    [title |-> << "modi" >>, summary |-> <<>>] }

\* an entry whose title is not a string makes entry.get('title', '').lower() raise
BadEntry ==
  [link |-> << "https://site", "/b" >>, title |-> <<>>, summary |-> <<>>,
   bad |-> TRUE]

FeedEntries ==
  { [link |-> l, title |-> t.title, summary |-> t.summary, bad |-> FALSE] :
      l \in EntryLinks, t \in EntryTexts } \cup { BadEntry }

\* what feedparser.parse(feed_url) does: raises, or yields a list of entries
RelatedFeedOutcomes ==
  { [raised |-> TRUE, entries |-> <<>>] }
    \cup { [raised |-> FALSE, entries |-> es] :
             es \in UNION { [1..j -> FeedEntries] : j \in 0..MaxFeedEntries } }

AnchorHrefs ==
  { <<>>, << "/a" >>, << "/b" >>, Url \o << "?utm" >>,
    << "https://other", "/r", "?u=", "https://site" >>,
    << "https://other", "/x" >> }

AnchorTitles ==
  { << "indian", "trade" >>, << "policy", "the", "the" >>, << "modi" >>,
    << "modi", "trade", "visit" >> }

Anchors == [href : AnchorHrefs, title : AnchorTitles]

\* what soup.select(selector) does: raises, or yields a list of anchors
AnchorOutcomes ==
  { [raised |-> TRUE, links |-> <<>>] }
    \cup { [raised |-> FALSE, links |-> ls] :
             ls \in UNION { [1..j -> Anchors] : j \in 0..MaxAnchors } }

\* lines 323-330; seq is the place in the order of discovery
RssCandidate(entry, score, related) ==
  [url |-> entry.link, title |-> entry.title, summary |-> entry.summary,
   relevance_score |-> score, source |-> "rss_feed", seq |-> Len(related) + 1]

\* lines 377-383
PageCandidate(href, title, score, related) ==
  [url |-> href, title |-> title, summary |-> <<>>,
   relevance_score |-> score, source |-> "page_links", seq |-> Len(related) + 1]

RECURSIVE ScanEntries(_, _, _, _, _, _, _)
\* lines 299-333: "for entry in feed.entries[:20]"; gives the list after
\* the loop, whether the loop was left by an exception, whether an
\* entry was skipped as the article itself, and the highest score that was
\* not accepted
ScanEntries(entries, related, kws, content, maxa, skipped, passed) ==
  IF entries = <<>>
    THEN [related |-> related, raised |-> FALSE, skipped |-> skipped,
          passed |-> passed]
  ELSE LET e == Head(entries)
           score == RssRelevance(kws, e.title \o e.summary, content)
       IN
         IF e.bad THEN [related |-> related, raised |-> TRUE, skipped |-> skipped,
                        passed |-> passed]
         ELSE IF RssSkips(Url, e.link)
           THEN ScanEntries(Tail(entries), related, kws, content, maxa, TRUE,
                            passed)
         ELSE IF RssAccepts(score)
           THEN LET more == Append(related, RssCandidate(e, score, related)) IN
                  IF Len(more) >= maxa
                    THEN [related |-> more, raised |-> FALSE, skipped |-> skipped,
                          passed |-> passed]
                    ELSE ScanEntries(Tail(entries), more, kws, content, maxa,
                                     skipped, passed)
         ELSE ScanEntries(Tail(entries), related, kws, content, maxa, skipped,
                          IF score > passed THEN score ELSE passed)

RECURSIVE ScanAnchors(_, _, _, _, _)
\* lines 363-386: "for link in links[:10]"; gives the list after the loop and
\* whether a link to the article itself was met
ScanAnchors(links, related, kws, maxa, skipped) ==
  IF links = <<>> THEN [related |-> related, skipped |-> skipped]
  ELSE LET a == Head(links)
           href == Resolve(Url, a.href)
       IN
         IF a.href # <<>> /\ PageKeeps(Url, href) /\ AnchorAccepts(kws, a.title)
           THEN LET more ==
                      Append(related,
                             PageCandidate(href, a.title,
                                           AnchorRelevance(kws, a.title), related))
                IN IF Len(more) >= maxa
                     THEN [related |-> more, skipped |-> skipped]
                     ELSE ScanAnchors(Tail(links), more, kws, maxa, skipped)
           ELSE ScanAnchors(Tail(links), related, kws, maxa,
                            skipped \/ (a.href # <<>> /\ href = Url))

\* mutant: the list is sorted by ascending score
InsertByScore_Ascending(sorted, x) ==
  LET k == Cardinality({ i \in DOMAIN sorted :
                           sorted[i].relevance_score <= x.relevance_score })
  IN SubSeq(sorted, 1, k) \o << x >> \o SubSeq(sorted, k + 1, Len(sorted))

\* where a stable descending sort puts x among the elements before it
InsertByScore(sorted, x) ==
  LET k == Cardinality({ i \in DOMAIN sorted :
                           sorted[i].relevance_score >= x.relevance_score })
  IN SubSeq(sorted, 1, k) \o << x >> \o SubSeq(sorted, k + 1, Len(sorted))

RECURSIVE SortByRelevance(_)
\* related_articles.sort(key=relevance_score, reverse=True)
SortByRelevance(s) ==
  IF s = <<>> THEN <<>>
  ELSE InsertByScore(SortByRelevance(SubSeq(s, 1, Len(s) - 1)), s[Len(s)])

\* mutant: the handler of a failed source empties the list
AfterSourceError_Discard(related) == <<>>

\* "except: continue" and "except: pass" leave related_articles as it is
AfterSourceError(related) == related

FindInit ==
  /\ NonFinderIdle
  /\ f_pc = "start"
  /\ current_title \in Titles
  /\ current_content \in Contents
  /\ max_articles \in 1..MaxArticles
  /\ keywords = {}
  /\ f_path = 1
  /\ f_response = "none"
  /\ f_selector = 1
  /\ related_articles = <<>>
  /\ self_skipped = FALSE
  /\ passed_over = 0
  /\ f_result = <<>>

\* lines 281-288; an exception here (a title that is not a string, say)
\* reaches the outer handler of lines 397-398
FindStart ==
  /\ f_pc = "start"
  /\ \E raises \in BOOLEAN :
       IF raises
         THEN f_pc' = "done" /\ f_result' = <<>> /\ UNCHANGED keywords
         ELSE /\ keywords' \in KeywordChoices(current_title, current_content)
              /\ f_pc' = "rss"
              /\ UNCHANGED f_result
  /\ UNCHANGED << current_title, current_content, max_articles, f_path,
                  f_response, f_selector, related_articles, self_skipped, passed_over >>

\* the end of one iteration of "for path in rss_paths"
NextPath(break) ==
  IF break \/ f_path = NumRssPaths
    THEN f_pc' = "page" /\ UNCHANGED f_path
    ELSE f_pc' = "rss" /\ f_path' = f_path + 1

\* lines 293-338: one iteration of "for path in rss_paths"
FindRssStep ==
  /\ f_pc = "rss"
  /\ \E feed \in RelatedFeedOutcomes :
       IF feed.raised
         THEN /\ related_articles' = AfterSourceError(related_articles)
              /\ NextPath(FALSE)
              /\ UNCHANGED << self_skipped, passed_over >>
         ELSE LET r == ScanEntries(Take(feed.entries, FeedEntryCap),
                                   related_articles, keywords, current_content,
                                   max_articles, self_skipped,
                                   passed_over)
              IN /\ related_articles' =
                      IF r.raised THEN AfterSourceError(r.related) ELSE r.related
                 /\ self_skipped' = r.skipped
                 /\ passed_over' = r.passed
                 /\ NextPath(~r.raised /\ Len(r.related) >= max_articles)
  /\ UNCHANGED << current_title, current_content, max_articles, keywords,
                  f_response, f_selector, f_result >>

\* lines 343-348: requests.get(url) and the status test
FindPageFetch ==
  /\ f_pc = "page"
  /\ \E o \in { "raised", "not_200", "ok" } :
       /\ f_response' = o
       /\ related_articles' =
            IF o = "raised" THEN AfterSourceError(related_articles)
                            ELSE related_articles
       /\ f_pc' = IF o = "ok" THEN "links" ELSE "sort"
  /\ UNCHANGED << current_title, current_content, max_articles, keywords,
                  f_path, f_selector, self_skipped, passed_over, f_result >>

\* lines 361-389: one iteration of "for selector in related_selectors"
FindLinksStep ==
  /\ f_pc = "links"
  /\ \E o \in AnchorOutcomes :
       IF o.raised
         THEN /\ related_articles' = AfterSourceError(related_articles)
              /\ f_pc' = "sort"
              /\ UNCHANGED << f_selector, self_skipped, passed_over >>
         ELSE LET r == ScanAnchors(Take(o.links, AnchorCap), related_articles,
                                   keywords, max_articles, self_skipped)
              IN /\ related_articles' = r.related
                 /\ self_skipped' = r.skipped
                 /\ UNCHANGED passed_over
                 /\ IF Len(r.related) >= max_articles
                         \/ f_selector = NumRelatedSelectors
                      THEN f_pc' = "sort" /\ UNCHANGED f_selector
                      ELSE f_pc' = "links" /\ f_selector' = f_selector + 1
  /\ UNCHANGED << current_title, current_content, max_articles, keywords,
                  f_path, f_response, f_result >>

\* lines 393-395
FindSort ==
  /\ f_pc = "sort"
  /\ f_result' = Take(SortByRelevance(related_articles), max_articles)
  /\ f_pc' = "done"
  /\ UNCHANGED << current_title, current_content, max_articles, keywords,
                  f_path, f_response, f_selector, related_articles,
                  self_skipped, passed_over >>

FindNext ==
  \/ FindStart /\ UNCHANGED nonFinderVars
  \/ FindRssStep /\ UNCHANGED nonFinderVars
  \/ FindPageFetch /\ UNCHANGED nonFinderVars
  \/ FindLinksStep /\ UNCHANGED nonFinderVars
  \/ FindSort /\ UNCHANGED nonFinderVars

FindSpec == FindInit /\ [][FindNext]_allVars

\* --------------------------------------------- find_related_articles, claims
FindDone == f_pc = "done"

\* C12: no candidate returned by find_related_articles has the url of the
\* article itself, from either source.
C12_NoSelfMatch ==
  FindDone => \A i \in DOMAIN f_result : f_result[i].url # Url

\* an entry or a link that is the article itself was met, and candidates
\* were returned
C12_Witness == FindDone /\ self_skipped /\ f_result # <<>>

\* C13: no candidate returned by find_related_articles has a url that is
\* the article's url or contains it.
C13_NoAlias ==
  FindDone => \A i \in DOMAIN f_result : ~IsSubstring(Url, f_result[i].url)

\* C14 as claimed: every returned candidate has relevance_score >= 2.
C14_ScoreFloor ==
  FindDone => \A i \in DOMAIN f_result : f_result[i].relevance_score >= 2

\* C14 (amended): every returned candidate from the RSS source has
\* relevance_score >= 2 and every one from the page links has
\* relevance_score >= 1.
C14_ScoreFloorBySource ==
  FindDone =>
    \A i \in DOMAIN f_result :
      /\ f_result[i].source = "rss_feed" => f_result[i].relevance_score >= 2
      /\ f_result[i].source = "page_links" => f_result[i].relevance_score >= 1

\* candidates of both sources were returned, a page link among them with
\* one matching keyword
C14_Witness ==
  /\ FindDone
  /\ \E i \in DOMAIN f_result : f_result[i].source = "rss_feed"
  /\ \E i \in DOMAIN f_result :
       f_result[i].source = "page_links" /\ f_result[i].relevance_score = 1

\* C15: the returned list has at most max_articles elements, its scores
\* never increase, and candidates of equal score are in the order in which
\* they were discovered.
C15_RankedAndCapped ==
  FindDone =>
    /\ Len(f_result) <= max_articles
    /\ \A i, j \in DOMAIN f_result :
         i < j =>
           /\ f_result[i].relevance_score >= f_result[j].relevance_score
           /\ f_result[i].relevance_score = f_result[j].relevance_score
                => f_result[i].seq < f_result[j].seq

\* more candidates than max_articles were collected, a later one outranks an
\* earlier one, and of two with equal score only the earlier was returned
C15_Witness ==
  /\ FindDone
  /\ Len(related_articles) > max_articles
  /\ \E i, j \in DOMAIN related_articles :
       i < j /\ related_articles[i].relevance_score < related_articles[j].relevance_score
  /\ \E i, j \in DOMAIN related_articles :
       /\ i < j
       /\ related_articles[i].relevance_score = related_articles[j].relevance_score
       /\ \E k \in DOMAIN f_result : f_result[k].seq = i
       /\ \A k \in DOMAIN f_result : f_result[k].seq # j

\* C16: find_related_articles never raises and never loses a candidate it
\* has collected: whatever a source does, the list only grows, and the call
\* returns a list that holds as many candidates as were collected, up to
\* max_articles.
C16_ErrorsSwallowed ==
  [][ /\ IsPrefix(related_articles, related_articles')
      /\ f_pc' = "done" =>
           /\ DOMAIN f_result' = 1..Len(f_result')
           /\ Len(f_result') =
                (IF Len(related_articles') < max_articles'
                   THEN Len(related_articles') ELSE max_articles') ]_allVars

\* the page request raised after the RSS source had given candidates, and
\* they were returned
C16_Witness ==
  /\ FindDone
  /\ f_response = "raised"
  /\ f_result # <<>>
  /\ \A i \in DOMAIN f_result : f_result[i].source = "rss_feed"

\* ------------------------------------------------ analyze_related_articles
\* A candidate list has at most MaxCands candidates and a fetched text at
\* most MaxSentences sentences.
MaxCands == 2
MaxSentences == 4

TopicWordMin == 5
TopicPrefix == 1000
TopicCap == 5
SummaryCap == 200
SentenceMin == 50
SentenceCap == 20
InfoCap == 150
UniqueCap == 3

\* A text, as this function reads it, is its words (for the topics) and its
\* sentences, the pieces between full stops. A sentence is its first 50
\* characters (key), its stripped length (n) and whether one of the words
\* 'policy', 'security', 'impact', 'citizen', 'government', 'cost',
\* 'benefit' is in it (kw). In the texts drawn here a sentence holds the
\* first 50 characters of another one only as its own beginning.
SentenceKinds ==
  { [key |-> 1, n |-> 60, kw |-> TRUE],
    [key |-> 2, n |-> 160, kw |-> TRUE],
    [key |-> 3, n |-> 60, kw |-> FALSE],
    [key |-> 4, n |-> 40, kw |-> TRUE] }

\* the texts a candidate's page may have: an empty one, one of MaxSentences
\* sentences that all pass the tests of lines 460 and 462, and one with a
\* sentence of every kind
FetchedTexts ==
  { <<>>,
    [i \in 1..MaxSentences |-> [key |-> 2, n |-> 160, kw |-> TRUE]],
    [i \in 1..4 |-> CHOOSE k \in SentenceKinds : k.key = i] }

\* [s.strip() for s in content.split('.') if len(s.strip()) > 50]
LongSentences(ss) == SelectSeq(ss, LAMBDA s : s.n > SentenceMin)

RECURSIVE ContentLen(_)
\* len(content): every sentence and its full stop
ContentLen(ss) ==
  IF ss = <<>> THEN 0 ELSE Head(ss).n + 1 + ContentLen(Tail(ss))

\* any(rel_sent[:50] in curr_sent for curr_sent in current_sentences)
Known(rel_sent, current_sentences) ==
  \E i \in DOMAIN current_sentences : current_sentences[i].key = rel_sent.key

\* rel_sent[:150]
Cut(rel_sent) ==
  [rel_sent EXCEPT !.n = IF @ > InfoCap THEN InfoCap ELSE @]

RECURSIVE UniqueInfo(_, _, _)
\* lines 458-465: the loop over related_sentences[:20], left at 3 entries
UniqueInfo(related_sentences, current_sentences, unique_info) ==
  IF related_sentences = <<>> THEN unique_info
  ELSE LET rel_sent == Head(related_sentences)
           take == ~Known(rel_sent, current_sentences) /\ rel_sent.kw
           after == IF take THEN Append(unique_info, Cut(rel_sent))
                            ELSE unique_info
       IN IF take /\ Len(after) >= UniqueCap THEN after
          ELSE UniqueInfo(Tail(related_sentences), current_sentences, after)

\* set(re.findall(r'\b\w{5,}\b', text[:1000]))
Topics(words) == WordsOfLen(ProsePrefix(words, TopicPrefix), TopicWordMin)

\* mutant: the slice [:5] is missing
TopicChoices_Uncapped(topics) == { topics }

\* list(topics)[:5]: a list without repetitions, here its set of elements;
\* the order of a set is not fixed, any five may be kept
TopicChoices(topics) ==
  IF Cardinality(topics) <= TopicCap THEN { topics }
  ELSE { t \in SUBSET topics : Cardinality(t) = TopicCap }

RichWords == << "india", "indian", "trade", "visit", "policy", "talks" >>

\* the current article: article_data of analyze_news
CompareArticles ==
  { [success |-> TRUE, title |-> << "modi", "visit" >>,
     content |-> [words |-> RichWords,
                  sentences |-> << [key |-> 1, n |-> 60, kw |-> TRUE] >>]],
    [success |-> TRUE, title |-> << "the", "talks" >>,
     content |-> [words |-> << "the" >>, sentences |-> <<>>]] }

\* candidates as find_related_articles builds them
CompareCandidates ==
  { [url |-> << "https://site", "/b" >>, title |-> << "indian", "trade" >>,
     summary |-> <<>>, relevance_score |-> 4, source |-> "rss_feed", seq |-> 1],
    [url |-> << "https://site", "/c" >>, title |-> << "modi" >>,
     summary |-> RichWords, relevance_score |-> 3, source |-> "rss_feed",
     seq |-> 2] }

CandidateLists == UNION { [1..j -> CompareCandidates] : j \in 0..MaxCands }

\* a success record of fetch_article_content, its content as sentences
FetchedArticle(ss) ==
  [success |-> TRUE, content |-> [words |-> <<>>, sentences |-> ss]]

\* what fetch_article_content(url, use_fallbacks=False) does for a candidate:
\* an exception comes out of it, or it returns None, a failure record or a
\* success record
CandidateFetches ==
  { [raised |-> TRUE, value |-> None] }
    \cup { [raised |-> FALSE, value |-> v] :
             v \in { None, Fail404, FailTimeout }
                     \cup { FetchedArticle(ss) : ss \in FetchedTexts } }

\* the fetch outcomes used where only their kind matters
CandidateFetchKinds ==
  { [raised |-> TRUE, value |-> None] }
    \cup { [raised |-> FALSE, value |-> v] :
             v \in { None, Fail404,
                     FetchedArticle(<< [key |-> 2, n |-> 160, kw |-> TRUE] >>) } }

FetchKind(fetched) ==
  IF fetched.raised THEN "raised"
  ELSE IF fetched.value = None THEN "none"
  ELSE IF Get(fetched.value, "success", FALSE) = TRUE THEN "success"
  ELSE "failure"

\* mutant: the test for an empty list is missing
NoCandidates_Never(related) == FALSE

\* line 402
NoCandidates(related) == related = <<>>

\* lines 403-406
NotFound ==
  [related_articles_found |-> FALSE,
   message |-> "No related articles found on the same website"]

\* lines 445-446: the call raises, or fetched is None and fetched.get raises
FetchRaises(fetched) == fetched.raised \/ fetched.value = None

\* mutant: any returned record is taken as a success
FetchedOk_AnyRecord(fetched) == TRUE

\* line 446
FetchedOk(fetched) == Get(fetched.value, "success", FALSE) = TRUE

\* lines 418-441
ArticleAnalysis(article, common, only_related, only_current) ==
  [url |-> article.url,
   title |-> article.title,
   relevance_score |-> article.relevance_score,
   summary |-> ProsePrefix(article.summary, SummaryCap),
   comparison |->
     [common_topics |-> common,
      topics_in_related_not_in_current |-> only_related,
      topics_in_current_not_in_related |-> only_current]]

\* lines 444-471
AfterFetch(article_analysis, cur_content, fetched) ==
  IF FetchRaises(fetched)
    THEN article_analysis @@ [full_content_available |-> FALSE]
  ELSE IF FetchedOk(fetched)
    THEN LET content == Get(fetched.value, "content",
                            [words |-> <<>>, sentences |-> <<>>])
             related_sentences == LongSentences(content.sentences)
             current_sentences == LongSentences(cur_content.sentences)
             unique_info == UniqueInfo(Take(related_sentences, SentenceCap),
                                       current_sentences, <<>>)
         IN [article_analysis EXCEPT
               !.comparison =
                  @ @@ [information_in_related_not_in_current |-> unique_info]]
              @@ [full_content_available |-> TRUE,
                  content_length |-> ContentLen(content.sentences)]
  ELSE article_analysis @@ [full_content_available |-> FALSE]

\* history: how many sentences of the fetched text pass the tests of lines
\* 460 and 462
Qualifying(cur_content, fetched) ==
  IF FetchKind(fetched) # "success" THEN 0
  ELSE Len(SelectSeq(LongSentences(fetched.value.content.sentences),
                     LAMBDA s : s.kw /\ ~Known(s, LongSentences(cur_content.sentences))))

CompareInit ==
  /\ NonCompareIdle
  /\ c_pc = "start"
  /\ current_article \in CompareArticles
  /\ candidates \in CandidateLists
  /\ c_i = 1
  /\ analysis = None
  /\ c_log = <<>>
  /\ c_result = Pending

\* lines 402-415
CompareStart ==
  /\ c_pc = "start"
  /\ IF NoCandidates(candidates)
       THEN c_result' = NotFound /\ c_pc' = "done" /\ UNCHANGED analysis
       ELSE /\ analysis' = [related_articles_found |-> TRUE,
                            total_found |-> Len(candidates),
                            articles |-> <<>>]
            /\ c_pc' = "loop"
            /\ UNCHANGED c_result
  /\ UNCHANGED << current_article, candidates, c_i, c_log >>

\* lines 417-473: one iteration of "for article in related_articles", the
\* candidate's fetch being one of fetches
CompareStep(fetches) ==
  /\ c_pc = "loop"
  /\ c_i <= Len(candidates)
  /\ LET article == candidates[c_i]
         current_topics == Topics(current_article.content.words)
         article_topics == Topics(article.summary)
     IN \E common \in TopicChoices(current_topics \cap article_topics),
           only_related \in TopicChoices(article_topics \ current_topics),
           only_current \in TopicChoices(current_topics \ article_topics),
           fetched \in fetches :
          /\ analysis' =
               [analysis EXCEPT
                  !.articles =
                     Append(@, AfterFetch(ArticleAnalysis(article, common,
                                                          only_related,
                                                          only_current),
                                          current_article.content, fetched))]
          /\ c_log' =
               Append(c_log,
                      [kind |-> FetchKind(fetched),
                       qualifying |-> Qualifying(current_article.content, fetched),
                       common |-> Cardinality(current_topics \cap article_topics)])
  /\ c_i' = c_i + 1
  /\ UNCHANGED << c_pc, current_article, candidates, c_result >>

\* line 475
CompareReturn ==
  /\ c_pc = "loop"
  /\ c_i > Len(candidates)
  /\ c_result' = analysis
  /\ c_pc' = "done"
  /\ UNCHANGED << current_article, candidates, c_i, analysis, c_log >>

CompareNext ==
  \/ CompareStart /\ UNCHANGED nonCompareVars
  \/ CompareStep(CandidateFetches) /\ UNCHANGED nonCompareVars
  \/ CompareReturn /\ UNCHANGED nonCompareVars

CompareSpec == CompareInit /\ [][CompareNext]_allVars

\* ------------------------------------------ analyze_related_articles, claims
CompareDone == c_pc = "done"

\* C17: with an empty candidate list analyze_related_articles returns
\* related_articles_found = false with a message and no articles array; with
\* a non-empty list it returns related_articles_found = true, total_found
\* equal to the number of candidates and one entry per candidate in input
\* order.
C17_OneEntryPerCandidate ==
  CompareDone =>
    IF candidates = <<>>
      THEN /\ c_result.related_articles_found = FALSE
           /\ "message" \in DOMAIN c_result
           /\ "articles" \notin DOMAIN c_result
      ELSE /\ c_result.related_articles_found = TRUE
           /\ c_result.total_found = Len(candidates)
           /\ Len(c_result.articles) = Len(candidates)
           /\ \A i \in DOMAIN candidates :
                /\ c_result.articles[i].url = candidates[i].url
                /\ c_result.articles[i].title = candidates[i].title
                /\ c_result.articles[i].relevance_score
                     = candidates[i].relevance_score

\* two different candidates were compared
C17_Witness ==
  /\ CompareDone
  /\ Len(candidates) >= 2
  /\ candidates[1].url # candidates[2].url
  /\ Len(c_result.articles) >= 2

\* C18: in every entry built by analyze_related_articles each of the three
\* topic lists has at most 5 entries and
\* information_in_related_not_in_current has at most 3.
C18_ListsCapped ==
  analysis # None =>
    \A i \in DOMAIN analysis.articles :
      LET comparison == analysis.articles[i].comparison IN
        /\ Cardinality(comparison.common_topics) <= 5
        /\ Cardinality(comparison.topics_in_related_not_in_current) <= 5
        /\ Cardinality(comparison.topics_in_current_not_in_related) <= 5
        /\ "information_in_related_not_in_current" \in DOMAIN comparison
             => Len(comparison.information_in_related_not_in_current) <= 3

\* the two texts share more than 5 topics and the fetched text has more than
\* 3 sentences that pass the tests
C18_Witness ==
  /\ CompareDone
  /\ \E i \in DOMAIN c_log :
       /\ c_log[i].common > 5
       /\ c_log[i].qualifying > 3
       /\ Len(c_result.articles[i].comparison.information_in_related_not_in_current) = 3

\* C19: a candidate whose fetch raised, returned None or returned a failure
\* record gets full_content_available = false and no
\* information_in_related_not_in_current, keeps its three topic lists, and
\* the call still returns one entry for every candidate.
C19_FetchFailureSkipsDelta ==
  /\ analysis # None =>
       \A i \in DOMAIN analysis.articles :
         c_log[i].kind # "success" =>
           /\ analysis.articles[i].full_content_available = FALSE
           /\ DOMAIN analysis.articles[i].comparison
                = { "common_topics", "topics_in_related_not_in_current",
                    "topics_in_current_not_in_related" }
  /\ CompareDone /\ candidates # <<>> =>
       /\ c_result.related_articles_found = TRUE
       /\ Len(c_result.articles) = Len(candidates)

\* the fetch of the first candidate failed and the second candidate was
\* still fetched and compared
C19_Witness ==
  /\ CompareDone
  /\ Len(c_log) >= 2
  /\ c_log[1].kind \in { "raised", "none", "failure" }
  /\ c_log[2].kind = "success"
  /\ c_result.articles[2].full_content_available = TRUE

\* ------------------------------------------------------------ analyze_news
\* The feeds and the page of the site offer at most MaxFound entries and
\* links that find_related_articles accepts.
MaxFound == 1

\* max_articles=5 at line 1346
NewsMaxArticles == 5

\* what fetch_article_content(url) returns to analyze_news: None, a failure
\* record or a success record
ArticleOutcomes ==
  { None, Fail404 }
    \cup { [success |-> TRUE, title |-> t,
            content |-> [words |-> w,
                         sentences |-> << [key |-> 1, n |-> 60, kw |-> TRUE] >>]] :
             t \in Titles, w \in Contents }

\* lines 1318-1322
FetchFailedResult(article) ==
  [success |-> FALSE,
   error |-> << "Failed", "to", "fetch", "article:" >> \o Get(article, "error", <<>>),
   url |-> Url]

\* lines 1434-1439
ApiErrorResult(article) ==
  [success |-> FALSE, error |-> << "OpenAI", "API", "error:" >>, url |-> Url,
   article |-> article]

\* lines 1419-1431
AnalysisResult(article, analysis_json, related) ==
  [success |-> TRUE, url |-> Url, article |-> article, analysis |-> analysis_json]
    @@ (IF related # None THEN [related_articles |-> related] ELSE << >>)

NewsInit ==
  /\ FetchIdle /\ BrowserIdle /\ FinderIdle /\ CompareIdle
  /\ n_pc = "fetch"
  /\ find_related \in BOOLEAN
  /\ article_data = None
  /\ alarm = "unset"
  /\ timed_out = "no"
  /\ related_articles_analysis = None
  /\ n_result = Pending

\* lines 1316-1329; article_data.get raises AttributeError when the fetch
\* returned None, and nothing in analyze_news catches it
NewsFetch ==
  /\ n_pc = "fetch"
  /\ \E o \in ArticleOutcomes :
       /\ article_data' = o
       /\ IF o = None
            THEN n_pc' = "raised" /\ n_result' = [raised |-> "AttributeError"]
          ELSE IF Get(o, "success", FALSE) # TRUE
            THEN n_pc' = "done" /\ n_result' = FetchFailedResult(o)
          ELSE /\ n_pc' = IF find_related THEN "arm" ELSE "rules"
               /\ UNCHANGED n_result
  /\ UNCHANGED << find_related, alarm, timed_out, related_articles_analysis >>
  /\ UNCHANGED << vars, browserVars, finderVars, compareVars >>

\* lines 1331-1347: signal.signal raises ValueError outside the main thread
\* (line 1361 catches it); otherwise the alarm is set and
\* find_related_articles is called
NewsArm ==
  /\ n_pc = "arm"
  /\ \E main_thread \in BOOLEAN :
       IF main_thread
         THEN /\ alarm' = "armed"
              /\ n_pc' = "search"
              /\ f_pc' = "start"
              /\ current_title' = article_data.title
              /\ current_content' = article_data.content.words
              /\ max_articles' = NewsMaxArticles
         ELSE /\ n_pc' = "rules"
              /\ UNCHANGED << alarm, f_pc, current_title, current_content,
                              max_articles >>
  /\ UNCHANGED << keywords, f_path, f_response, f_selector, related_articles,
                  self_skipped, passed_over, f_result >>
  /\ UNCHANGED << find_related, article_data, timed_out,
                  related_articles_analysis, n_result >>
  /\ UNCHANGED << vars, browserVars, compareVars >>

\* SIGALRM is delivered and timeout_handler raises TimeoutError at the place
\* find_related_articles has reached. Inside a feed probe the bare except of
\* line 337 continues with the next path; at the loop statement the bare
\* except of line 339 goes on to the page; inside the page part the bare
\* except of line 390 goes on to the sort; elsewhere in the function the
\* handler of line 397 returns []. After the function has returned, line 1355
\* catches it.
AlarmFires ==
  /\ n_pc = "search"
  /\ alarm = "armed"
  /\ alarm' = "fired"
  /\ timed_out' = f_pc
  /\ related_articles' = AfterSourceError(related_articles)
  /\ CASE f_pc \in { "start", "sort" } ->
            f_pc' = "done" /\ f_result' = <<>> /\ UNCHANGED << f_path, n_pc >>
       [] f_pc = "rss" ->
            /\ NextPath(FALSE) \/ (f_pc' = "page" /\ UNCHANGED f_path)
            /\ UNCHANGED << f_result, n_pc >>
       [] f_pc \in { "page", "links" } ->
            f_pc' = "sort" /\ UNCHANGED << f_path, f_result, n_pc >>
       [] f_pc = "done" ->
            n_pc' = "rules" /\ UNCHANGED << f_pc, f_path, f_result >>
  /\ UNCHANGED << current_title, current_content, max_articles, keywords,
                  f_response, f_selector, self_skipped, passed_over >>
  /\ UNCHANGED << find_related, article_data, related_articles_analysis,
                  n_result >>
  /\ UNCHANGED << vars, browserVars, compareVars >>

\* lines 1348-1354: the search returned; analyze_related_articles is called
\* when the list is not empty
NewsCancel ==
  /\ n_pc = "search"
  /\ f_pc = "done"
  /\ alarm' = IF alarm = "armed" THEN "cancelled" ELSE alarm
  /\ IF f_result # <<>>
       THEN /\ n_pc' = "compare"
            /\ c_pc' = "start"
            /\ current_article' = article_data
            /\ candidates' = f_result
       ELSE /\ n_pc' = "rules"
            /\ UNCHANGED << c_pc, current_article, candidates >>
  /\ UNCHANGED << c_i, analysis, c_log, c_result >>
  /\ UNCHANGED << find_related, article_data, timed_out,
                  related_articles_analysis, n_result >>
  /\ UNCHANGED << vars, browserVars, finderVars >>

\* line 1352: analyze_related_articles has returned
NewsCompared ==
  /\ n_pc = "compare"
  /\ c_pc = "done"
  /\ related_articles_analysis' = c_result
  /\ n_pc' = "rules"
  /\ UNCHANGED << find_related, article_data, alarm, timed_out, n_result >>
  /\ UNCHANGED << vars, browserVars, finderVars, compareVars >>

\* lines 1364-1370
NewsRules ==
  /\ n_pc = "rules"
  /\ n_pc' = "api"
  /\ UNCHANGED << find_related, article_data, alarm, timed_out,
                  related_articles_analysis, n_result >>
  /\ UNCHANGED << vars, browserVars, finderVars, compareVars >>

\* lines 1375-1439: the call of the analysis service raises, or answers with
\* text that is JSON or is not
NewsApi ==
  /\ n_pc = "api"
  /\ \E o \in { "raised", "json", "raw_response" } :
       n_result' = IF o = "raised" THEN ApiErrorResult(article_data)
                   ELSE AnalysisResult(article_data, o, related_articles_analysis)
  /\ n_pc' = "done"
  /\ UNCHANGED << find_related, article_data, alarm, timed_out,
                  related_articles_analysis >>
  /\ UNCHANGED << vars, browserVars, finderVars, compareVars >>

\* the steps of the two functions analyze_news calls
NewsSearchStep(step) ==
  /\ n_pc = "search"
  /\ step
  /\ Len(related_articles') <= MaxFound
  /\ UNCHANGED << vars, browserVars, compareVars, newsVars >>

NewsCompareStep(step) ==
  /\ n_pc = "compare"
  /\ step
  /\ UNCHANGED << vars, browserVars, finderVars, newsVars >>

NewsNext ==
  \/ NewsFetch
  \/ NewsArm
  \/ NewsSearchStep(FindStart)
  \/ NewsSearchStep(FindRssStep)
  \/ NewsSearchStep(FindPageFetch)
  \/ NewsSearchStep(FindLinksStep)
  \/ NewsSearchStep(FindSort)
  \/ AlarmFires
  \/ NewsCancel
  \/ NewsCompareStep(CompareStart)
  \/ NewsCompareStep(CompareStep(CandidateFetchKinds))
  \/ NewsCompareStep(CompareReturn)
  \/ NewsCompared
  \/ NewsRules
  \/ NewsApi

NewsSpec == NewsInit /\ [][NewsNext]_allVars

\* ---------------------------------------------------- analyze_news, claims
\* C20: when the alarm fires during the related-article search, the
\* TimeoutError does not leave analyze_news, no related article is taken up
\* (related_articles_analysis stays None, as when none was found) and the
\* record returned after the call of the analysis service has no
\* related_articles.
C20_TimeoutMeansNoneFound ==
  timed_out # "no" =>
    /\ n_pc # "raised"
    /\ related_articles_analysis = None
    /\ n_pc = "done" => "related_articles" \notin DOMAIN n_result

\* C21: analyze_news never raises and always returns a record with a success
\* field, whatever fetch_article_content returned and whatever the
\* related-article phase and the analysis service did.
C21_NewsNeverRaises ==
  /\ n_pc # "raised"
  /\ n_pc = "done" => "success" \in DOMAIN n_result

\* C22: when the first selector, 'article', matched an element with at least
\* 150 characters of text, the selector loop keeps that text: the selector
\* tried next never replaces it, whatever it matches.
C22_ArticleSelectorWins ==
  [][ ( /\ pc = "selectors"
        /\ sel_idx = 2
        /\ sources = << "selector" >>
        /\ TextLen(article_content) >= 150 )
      => article_content' = article_content ]_vars

\* C23 as stated: when no selector matched and the paragraph stage set the
\* content, neither the div scan nor the body text replaces it, whatever its
\* length.
C23_ParagraphsAlwaysKept ==
  [][ (pc \in { "divs", "body" } /\ sources = << "paragraphs" >>)
      => article_content' = article_content ]_vars

\* C23, amended: when no selector matched and the paragraph stage set a
\* content of at least 100 characters, neither the div scan nor the body text
\* replaces it; a shorter aggregation may be replaced.
C23_LongParagraphsKept ==
  [][ ( /\ pc \in { "divs", "body" }
        /\ sources = << "paragraphs" >>
        /\ TextLen(article_content) >= 100 )
      => (article_content' = article_content /\ sources' = sources) ]_vars

\* a paragraph aggregation under the selector threshold came through the div
\* scan and the body stage
C23_Witness ==
  /\ pc = "check"
  /\ sources = << "paragraphs" >>
  /\ TextLen(article_content) >= 100
  /\ TextLen(article_content) < 150

\* C24: once the alarm has fired during find_related_articles, the search is
\* abandoned: no feed path is probed and no page fetch is started afterwards.
C24_AlarmAbandonsSearch ==
  [][ (alarm = "fired" /\ n_pc = "search" /\ f_pc \in { "rss", "page" })
      => (f_pc' = f_pc /\ f_path' = f_path) ]_allVars

\* C25: after the direct request, a fallback strategy is about to be called
\* for lack of content only when the extracted content is under the floor of
\* 50 characters (the other way in is a 401/403 response).
C25_FallbacksOnlyUnderFloor ==
  (pc = "fallback" /\ fb # <<>> /\ branch \in { "pre", "post" })
    => TextLen(article_content) < 50

\* C26: a call of fetch_with_selenium or fetch_with_playwright never ends
\* with an exception leaving the function; whatever step failed, it returns
\* a record.
C26_StrategyNeverRaises == b_pc # "raised"

\* C27: every candidate found among the page's links and returned by
\* find_related_articles is on the article's origin (scheme and host).
C27_PageLinksSameOrigin ==
  FindDone =>
    \A i \in DOMAIN f_result :
      f_result[i].source = "page_links"
        => Head(f_result[i].url) = "https://site"

\* C28: the relevance_score of every candidate from the RSS source is the
\* number of keywords found in its title and summary plus 2 for every fixed
\* topic term found both there and in the current content, and a scored
\* entry became a candidate exactly when that score is at least 2: every
\* candidate has at least 2, every entry passed over had less.
C28_RssScoreAndFloor ==
  /\ \A i \in DOMAIN related_articles :
       LET c == related_articles[i]
           entry_text == c.title \o c.summary
           topics == { "india", "modi", "putin", "russia", "diplomatic",
                       "visit", "policy" }
       IN c.source = "rss_feed" =>
            /\ c.relevance_score =
                 Cardinality({ k \in keywords : InText(k, entry_text) })
                   + 2 * Cardinality({ t \in topics :
                                         /\ InText(t, entry_text)
                                         /\ InText(t, current_content) })
            /\ c.relevance_score >= 2
  /\ passed_over < 2

\* an entry with two keywords and no shared topic term was returned with
\* score 2, and an entry of score 1 was passed over
C28_Witness ==
  /\ FindDone
  /\ passed_over = 1
  /\ \E i \in DOMAIN f_result :
       /\ f_result[i].source = "rss_feed"
       /\ f_result[i].relevance_score = 2
       /\ Cardinality({ k \in keywords :
                          InText(k, f_result[i].title \o f_result[i].summary) }) = 2

\* C29: the cleanup of content that passed the first length test keeps, in
\* order and up to the first 200, exactly the lines of more than 5
\* characters that are not all-caps lines of under 30 characters.
C29_CleanupKeepsLongLines ==
  [][ (pc = "check" /\ article_content # <<>> /\ TextLen(article_content) >= 80)
      => article_content' =
           Take(SelectSeq(article_content,
                          LAMBDA l : l.n > 5 /\ ~(l.up /\ l.n < 30)),
                200) ]_vars

\* C30: the list returned by find_related_articles has no two candidates
\* with the same url.
C30_NoDuplicateUrls ==
  FindDone =>
    \A i, j \in DOMAIN f_result :
      f_result[i].url = f_result[j].url => i = j

====
